---- MODULE Spec2Model ----
(***************************************************************************)
(* URL shortener (src/app.js): one Node.js HTTP server whose handlers load  *)
(* the whole link table from data/links.json, and whose create handler     *)
(* writes the whole table back.  Handlers are async functions: each await  *)
(* of a file operation is a point where other requests' steps interleave.  *)
(*                                                                         *)
(* File content is a sequence of tokens: the opening brace, one token per  *)
(* "code": "url" member, the closing brace.  JSON.stringify produces that  *)
(* sequence and JSON.parse reads it back (or throws).  writeFile is Node's *)
(* fs/promises writeFile with the default flag 'w': open with O_TRUNC,     *)
(* then write at offset 0, then close, each a separate asynchronous step.  *)
(***************************************************************************)
EXTENDS Naturals, Sequences, FiniteSets, TLC

\* ------------------------------------------------------------------ bounds
\* Requests issued in one run, handlers in flight at once, I/O errors in one
\* run; requests issued in a run whose requests do not overlap.
MaxRequests == 3
MaxPending == 2
MaxIoFaults == 1
MaxSeqRequests == 2
MaxMembers == 2
MaxRoundTrips == 2

Requests == 1..MaxRequests

\* ------------------------------------------------------------ value domain
Undefined == "<undefined>"
FunctionObject == "function Object() { [native code] }"

\* Property names every object parsed from JSON inherits from Object.prototype.
InheritedProps == {"constructor"}

\* Destinations a client may send; "" stands for an empty or missing url.
\* The record may hold "u0" from an earlier run of the process.
Urls == {"", "u1"}
\* shortCode values a client may send; "" stands for an empty or missing one.
ShortCodes == {"", "a", "links", "constructor"}
\* Outcomes of crypto.randomBytes(4).toString("hex") (8 hex characters each).
RandomHex == {"a", "b"}

LB == <<"{", "">>
RB == <<"}", "">>
Garbage == <<"#", "">>

\* Paths are <<"/", rest>>, so that req.url.slice(1) is the second component.
Path(rest) == <<"/", rest>>
Slice1(path) == path[2]
StaticPaths == {Path("")}
ListPath == Path("links")
ResolvePaths == {Path("a"), Path("constructor")}
GetPaths == StaticPaths \cup {ListPath} \cup ResolvePaths

\* The switch without its "/links" case: the path falls to the default.
Route_NoListCase(path) == IF path \in StaticPaths THEN "static" ELSE "resolve"

\* switch (req.url) of a GET (app.js 120-147): which handler takes the path.
Route(path) ==
    IF path \in StaticPaths THEN "static"
    ELSE IF path = ListPath THEN "list"
    ELSE "resolve"

\* JavaScript truthiness of the values that occur here.
Truthy(v) == v \notin {Undefined, ""}

\* ------------------------------------------------- the links object (table)
\* A links object is the sequence of its own members <<key, value>>, in
\* insertion order, keys unique.
OwnIdx(links, k) == {i \in 1..Len(links) : links[i][1] = k}
HasOwn(links, k) == OwnIdx(links, k) # {}

\* links[k]: the own member, else what Object.prototype provides, else undefined.
Get(links, k) ==
    IF HasOwn(links, k) THEN links[CHOOSE i \in OwnIdx(links, k) : TRUE][2]
    ELSE IF k \in InheritedProps THEN FunctionObject
    ELSE Undefined

\* links[k] = v
Put(links, k, v) ==
    IF HasOwn(links, k)
    THEN [i \in 1..Len(links) |-> IF links[i][1] = k THEN <<k, v>> ELSE links[i]]
    ELSE Append(links, <<k, v>>)

Entries(links) == {links[i] : i \in 1..Len(links)}

\* The table kept as an array carrying named properties: JSON.stringify
\* writes none of them.
Stringify_NoMembers(links) == <<LB, RB>>

\* JSON.stringify(links) and JSON.stringify(links, null, 2): same tokens.
Stringify(links) == <<LB>> \o links \o <<RB>>

IsMember(tok) == tok[1] \notin {"{", "}", "#"}

ParseOk(data) ==
    /\ Len(data) >= 2
    /\ data[1] = LB
    /\ data[Len(data)] = RB
    /\ \A i \in 2..(Len(data) - 1) : IsMember(data[i])

RECURSIVE FromMembers(_, _)
FromMembers(members, acc) ==
    IF members = <<>> THEN acc
    ELSE FromMembers(Tail(members), Put(acc, Head(members)[1], Head(members)[2]))

\* JSON.parse(data) for a text that parses: a repeated key keeps its last value.
Parse(data) == FromMembers(SubSeq(data, 2, Len(data) - 1), <<>>)

\* The test of a zero-length text left out: every text goes to JSON.parse.
NoText_Unchecked(data) == FALSE

\* !data (app.js 48): the text read is zero-length.
NoText(data) == data = <<>>

\* write(fd, text) at offset 0 of a file that holds old.
Overlay(old, text) == text \o SubSeq(old, Len(text) + 1, Len(old))

\* ------------------------------------------------------------------- state
VARIABLES
    file,       \* data/links.json: [exists, data]
    req,        \* per request: handler position, locals, response, history
    crashed,    \* the process died of an unhandled rejection
    ioFaults,   \* I/O errors injected so far
    acked,      \* <<code, url>> of every create answered 201
    file0,      \* the record as it was when the process started
    overlap     \* whether the transport delivers overlapping requests

vars == <<file, req, crashed, ioFaults, acked, file0, overlap>>

NoFile == [exists |-> FALSE, data |-> <<>>]
FileOf(data) == [exists |-> TRUE, data |-> data]

\* What loadLinks would make of a record: whether it returns, and the table.
LoadOk(f) == ~f.exists \/ NoText(f.data) \/ ParseOk(f.data)
TableOf(f) == IF f.exists /\ ~NoText(f.data) /\ ParseOk(f.data) THEN Parse(f.data) ELSE <<>>
Observable(f) == [ok |-> LoadOk(f), table |-> TableOf(f)]

\* History: request q has replaced record f by record g.
Wrote(q, f, g) == [q EXCEPT !.changed = q.changed \/ Observable(f) # Observable(g)]

NoRequest ==
    [kind |-> "none", pc |-> "idle", path |-> Path(""), bodyOk |-> TRUE,
     url |-> "", shortCode |-> "", links |-> <<>>, final |-> "",
     status |-> 0, text |-> "", body |-> <<>>,
     absent0 |-> FALSE, ackedBefore |-> {}, rivals |-> {}, alone |-> FALSE,
     changed |-> FALSE, truncated |-> FALSE, torn |-> FALSE,
     loaded |-> "no", cand |-> "", candOwn |-> FALSE, checked |-> "none",
     persisted |-> FALSE, trips |-> 0, once |-> <<>>]

InFlight(r) == req[r].kind # "none" /\ req[r].pc \notin {"idle", "done", "hung"}
Pending == {r \in Requests : InFlight(r)}

InitialFiles ==
    {NoFile, FileOf(<<>>), FileOf(Stringify(<<>>)),
     FileOf(Stringify(<< <<"a", "u0">> >>)), FileOf(<<LB, Garbage>>)}

InitCommon ==
    /\ file \in InitialFiles
    /\ file0 = file
    /\ req = [r \in Requests |-> NoRequest]
    /\ crashed = FALSE
    /\ ioFaults = 0
    /\ acked = {}

Init == InitCommon /\ overlap = TRUE
SeqInit == InitCommon /\ overlap = FALSE

\* ----------------------------------------------------------------- helpers
CanStart(r) ==
    /\ ~crashed
    /\ req[r].kind = "none"
    /\ \A p \in Requests : p < r => req[p].kind # "none"
    /\ Cardinality(Pending) < (IF overlap THEN MaxPending ELSE 1)
    /\ overlap \/ r <= MaxSeqRequests

Started(kind, path, bodyOk, url, shortCode) ==
    [NoRequest EXCEPT !.kind = kind, !.pc = "read", !.path = path,
                      !.bodyOk = bodyOk, !.url = url, !.shortCode = shortCode,
                      !.absent0 = ~HasOwn(TableOf(file), shortCode),
                      !.ackedBefore = IF kind \in {"create", "list"}
                                      THEN {p \in Requests : req[p].status = 201}
                                      ELSE {},
                      !.alone = (kind = "list" /\ Pending = {})]

\* Request r begins as record q.  History: the requests in flight are no
\* longer alone.
Begin(r, q) ==
    [p \in Requests |->
        IF p = r THEN q
        ELSE IF InFlight(p) THEN [req[p] EXCEPT !.alone = FALSE]
        ELSE req[p]]

\* res.writeHead(status); res.end(...): the handler is finished.
\* History that only matters while a create runs is dropped with its locals.
Answer(q, status, text, body) ==
    [q EXCEPT !.pc = "done", !.status = status, !.text = text, !.body = body,
              !.links = <<>>, !.truncated = FALSE,
              !.ackedBefore = IF q.kind = "list" THEN @ ELSE {},
              !.rivals = IF status = 201 THEN @ ELSE {}]

CanFault == ioFaults < MaxIoFaults

\* ------------------------------------------------ continuation of the load
\* CreateCheck with a taken generated candidate replaced by a free one
\* (a regenerate-and-retry loop).
CreateCheck_Redraw(q, links, final) ==
    LET free == {c \in RandomHex : ~Truthy(Get(links, c))}
        code == IF ~Truthy(q.shortCode) /\ Truthy(Get(links, final)) /\ free # {}
                THEN CHOOSE c \in free : TRUE
                ELSE final
    IN
    IF ~q.bodyOk
    THEN Answer([q EXCEPT !.loaded = "ok"], 500, "Server error.", <<>>)
    ELSE IF ~Truthy(q.url)
    THEN Answer([q EXCEPT !.loaded = "ok"], 400, "URL is required.", <<>>)
    ELSE IF Truthy(Get(links, code))
    THEN Answer([q EXCEPT !.loaded = "ok", !.final = code, !.checked = "present"],
                400, "Short code already exists. Please choose another.", <<>>)
    ELSE [q EXCEPT !.loaded = "ok", !.final = code, !.checked = "absent",
                   !.links = Put(links, code, q.url), !.pc = "save_open"]

\* POST /shorten after loadLinks returned links (app.js 85-103), final being
\* the candidate: the requested code, else the one random draw.
CreateCheck(q, links, final) ==
    IF ~q.bodyOk
    THEN Answer([q EXCEPT !.loaded = "ok"], 500, "Server error.", <<>>)
    ELSE IF ~Truthy(q.url)
    THEN Answer([q EXCEPT !.loaded = "ok"], 400, "URL is required.", <<>>)
    ELSE IF Truthy(Get(links, final))
    THEN Answer([q EXCEPT !.loaded = "ok", !.final = final, !.checked = "present"],
                400, "Short code already exists. Please choose another.", <<>>)
    ELSE [q EXCEPT !.loaded = "ok", !.final = final, !.checked = "absent",
                   !.links = Put(links, final, q.url), !.pc = "save_open"]

Candidates(q) == IF Truthy(q.shortCode) THEN {q.shortCode} ELSE RandomHex

\* History: the candidate of request q, and whether the loaded table holds it.
Drawn(q, links, final) == [q EXCEPT !.cand = final, !.candOwn = HasOwn(links, final)]

\* GET /links after loadLinks returned links (app.js 129-130).
ListAnswer(q, links) == Answer([q EXCEPT !.loaded = "ok"], 200, "", links)

\* GET /<code> after loadLinks returned links (app.js 135-143, 151-152).
ResolveAnswer(q, links) ==
    LET targetUrl == Get(links, Slice1(q.path)) IN
    IF Truthy(targetUrl)
    THEN Answer([q EXCEPT !.loaded = "ok"], 301, targetUrl, <<>>)
    ELSE Answer([q EXCEPT !.loaded = "ok"], 404, "404 Not Found", <<>>)

\* The handler of request r, its record being q, resumes with the table
\* loadLinks returned.
AfterLoad(r, q, links) ==
    /\ crashed' = crashed
    /\ \/ /\ q.kind = "create"
          /\ \E final \in Candidates(q) :
                req' = [req EXCEPT ![r] = CreateCheck(Drawn(q, links, final), links, final)]
       \/ /\ q.kind = "list"
          /\ req' = [req EXCEPT ![r] = ListAnswer(q, links)]
       \/ /\ q.kind = "resolve"
          /\ req' = [req EXCEPT ![r] = ResolveAnswer(q, links)]

\* A load error taken for an empty table: the handler carries on from {}.
AfterLoadError_Recover(r, q0) == AfterLoad(r, q0, <<>>)

\* The handler resumes with the error loadLinks threw.
\*   create:  caught at app.js 109-112, answered 500.
\*   resolve: caught at app.js 144-146, logged, falls to the 404 at 151-152.
\*   list:    no try around app.js 128: the async callback's promise rejects
\*            with nobody listening; the request gets no answer and the
\*            process either dies or carries on, by Node version and flags.
AfterLoadError(r, q0) ==
    LET q == [q0 EXCEPT !.loaded = "error"] IN
    \/ /\ q.kind = "create"
       /\ req' = [req EXCEPT ![r] = Answer(q, 500, "Server error.", <<>>)]
       /\ crashed' = crashed
    \/ /\ q.kind = "resolve"
       /\ req' = [req EXCEPT ![r] = Answer(q, 404, "404 Not Found", <<>>)]
       /\ crashed' = crashed
    \/ /\ q.kind = "list"
       /\ req' = [req EXCEPT ![r] = [q EXCEPT !.pc = "hung", !.links = <<>>]]
       /\ crashed' \in BOOLEAN

\* ----------------------------------------------------------------- actions
\* 'end' of a POST /shorten body: the callback calls loadLinks (app.js 82-84).
StartCreate(r) ==
    /\ CanStart(r)
    /\ \E bodyOk \in BOOLEAN, url \in Urls, shortCode \in ShortCodes :
          /\ bodyOk \/ (url = "" /\ shortCode = "")
          /\ req' = Begin(r, Started("create", Path("shorten"), bodyOk, url, shortCode))
    /\ UNCHANGED <<file, crashed, ioFaults, acked, file0, overlap>>

\* GET /links: the handler calls loadLinks (app.js 127-128).
StartList(r) ==
    /\ CanStart(r)
    /\ \E path \in GetPaths :
          /\ Route(path) = "list"
          /\ req' = Begin(r, Started("list", path, TRUE, "", ""))
    /\ UNCHANGED <<file, crashed, ioFaults, acked, file0, overlap>>

\* GET of any path outside the switch's cases: loadLinks (app.js 131-134).
StartResolve(r) ==
    /\ CanStart(r)
    /\ \E path \in GetPaths :
          /\ Route(path) = "resolve"
          /\ req' = Begin(r, Started("resolve", path, TRUE, "", ""))
    /\ UNCHANGED <<file, crashed, ioFaults, acked, file0, overlap>>

\* GET /, /style.css, /index.js: serveFile reads the asset (app.js 121-126).
StartStatic(r) ==
    /\ CanStart(r)
    /\ \E path \in GetPaths :
          /\ Route(path) = "static"
          /\ req' = Begin(r, [Started("static", path, TRUE, "", "") EXCEPT !.pc = "serve"])
    /\ UNCHANGED <<file, crashed, ioFaults, acked, file0, overlap>>

\* serveFile's readFile settles (app.js 25-35).
ServeFile(r) ==
    /\ ~crashed
    /\ req[r].pc = "serve"
    /\ \/ /\ req' = [req EXCEPT ![r] = Answer(req[r], 200, "asset", <<>>)]
          /\ UNCHANGED ioFaults
       \/ /\ CanFault
          /\ ioFaults' = ioFaults + 1
          /\ req' = [req EXCEPT ![r] = Answer(req[r], 500, "500 Internal Server Error", <<>>)]
    /\ UNCHANGED <<file, crashed, acked, file0, overlap>>

\* History: request r reads the record while another request is between the
\* open and the write of its save, the open having emptied a record that held
\* a non-empty table.
Read(r) ==
    [req[r] EXCEPT !.torn =
        \E w \in Requests \ {r} :
            req[w].pc = "save_write" /\ req[w].truncated /\ file.data = <<>>]

\* loadLinks: readFile(DATA_FILE) settles (app.js 43-60).
ReadFile(r) ==
    /\ ~crashed
    /\ req[r].pc = "read"
    /\ \/ /\ file.exists
          /\ NoText(file.data)
          /\ AfterLoad(r, Read(r), <<>>)
          /\ UNCHANGED ioFaults
       \/ /\ file.exists
          /\ ~NoText(file.data)
          /\ ParseOk(file.data)
          /\ AfterLoad(r, Read(r), Parse(file.data))
          /\ UNCHANGED ioFaults
       \/ /\ file.exists
          /\ ~NoText(file.data)
          /\ ~ParseOk(file.data)
          /\ AfterLoadError(r, Read(r))
          /\ UNCHANGED ioFaults
       \/ /\ ~file.exists
          /\ req' = [req EXCEPT ![r].pc = "mk_open"]
          /\ UNCHANGED <<crashed, ioFaults>>
       \/ /\ CanFault
          /\ ioFaults' = ioFaults + 1
          /\ AfterLoadError(r, req[r])
    /\ UNCHANGED <<file, acked, file0, overlap>>

\* loadLinks on ENOENT: writeFile(DATA_FILE, "{}") opens the file, creating
\* or truncating it (app.js 55).
MkOpen(r) ==
    /\ ~crashed
    /\ req[r].pc = "mk_open"
    /\ \/ /\ file' = FileOf(<<>>)
          /\ req' = [req EXCEPT ![r] = [Wrote(req[r], file, file') EXCEPT !.pc = "mk_write"]]
          /\ UNCHANGED <<crashed, ioFaults>>
       \/ /\ CanFault
          /\ ioFaults' = ioFaults + 1
          /\ AfterLoadError(r, req[r])
          /\ UNCHANGED file
    /\ UNCHANGED <<acked, file0, overlap>>

\* loadLinks on ENOENT: the write settles and loadLinks returns {} (app.js 55-56).
MkWrite(r) ==
    /\ ~crashed
    /\ req[r].pc = "mk_write"
    /\ \/ /\ file' = FileOf(Overlay(file.data, Stringify(<<>>)))
          /\ AfterLoad(r, Wrote(req[r], file, file'), <<>>)
          /\ UNCHANGED ioFaults
       \/ /\ CanFault
          /\ ioFaults' = ioFaults + 1
          /\ AfterLoadError(r, req[r])
          /\ UNCHANGED file
    /\ UNCHANGED <<acked, file0, overlap>>

\* saveLinks: writeFile opens the file, truncating it (app.js 69).
SaveOpen(r) ==
    /\ ~crashed
    /\ req[r].pc = "save_open"
    /\ \/ /\ file' = FileOf(<<>>)
          /\ req' = [req EXCEPT ![r] = [Wrote(req[r], file, file') EXCEPT
                                           !.pc = "save_write",
                                           !.truncated = (TableOf(file) # <<>>)]]
          /\ UNCHANGED ioFaults
       \/ /\ CanFault
          /\ ioFaults' = ioFaults + 1
          /\ req' = [req EXCEPT ![r] = Answer(req[r], 500, "Server error.", <<>>)]
          /\ UNCHANGED file
    /\ UNCHANGED <<crashed, acked, file0, overlap>>

\* saveLinks: the text is written at offset 0 (app.js 69).
SaveWrite(r) ==
    /\ ~crashed
    /\ req[r].pc = "save_write"
    /\ \/ /\ file' = FileOf(Overlay(file.data, Stringify(req[r].links)))
          /\ req' = [req EXCEPT ![r] = [Wrote(req[r], file, file') EXCEPT !.pc = "save_close"]]
          /\ UNCHANGED ioFaults
       \/ /\ CanFault
          /\ ioFaults' = ioFaults + 1
          /\ req' = [req EXCEPT ![r] = Answer(req[r], 500, "Server error.", <<>>)]
          /\ UNCHANGED file
    /\ UNCHANGED <<crashed, acked, file0, overlap>>

\* saveLinks returns; 201 with the short code is sent (app.js 103-107).
\* History: whether the record holds the mapping at that moment; the other
\* requests in flight note the requested code that was acknowledged.
Respond(r) ==
    /\ ~crashed
    /\ req[r].pc = "save_close"
    /\ req' = [p \in Requests |->
                 IF p = r
                 THEN Answer([req[r] EXCEPT !.persisted =
                                 LoadOk(file) /\ Get(TableOf(file), req[r].final) = req[r].url],
                             201, req[r].final, <<>>)
                 ELSE IF InFlight(p)
                 THEN [req[p] EXCEPT !.rivals = IF req[p].kind = "create"
                                                THEN @ \cup {req[r].shortCode} ELSE @]
                 ELSE req[p]]
    /\ acked' = acked \cup {<<req[r].final, req[r].url>>}
    /\ UNCHANGED <<file, crashed, ioFaults, file0, overlap>>

Next ==
    \E r \in Requests :
        \/ StartCreate(r)
        \/ StartList(r)
        \/ StartResolve(r)
        \/ StartStatic(r)
        \/ ServeFile(r)
        \/ ReadFile(r)
        \/ MkOpen(r)
        \/ MkWrite(r)
        \/ SaveOpen(r)
        \/ SaveWrite(r)
        \/ Respond(r)

Spec == Init /\ [][Next]_vars
SeqSpec == SeqInit /\ [][Next]_vars

\* ------------------------------------------- save(load()) taken on its own
\* The texts of data/links.json that hold a table: a zero-length text, and
\* "{" members "}" for up to MaxMembers members with different keys.
RtMembers == {<<c, u>> : c \in {"a", "b", "links"}, u \in {"u0", "u1"}}
RtTables ==
    {m \in UNION {[1..n -> RtMembers] : n \in 0..MaxMembers} :
        \A i, j \in 1..Len(m) : m[i][1] = m[j][1] => i = j}
RtFiles == {FileOf(<<>>)} \cup {FileOf(<<LB>> \o m \o <<RB>>) : m \in RtTables}
RtCaller == 1

RtInit ==
    /\ file \in RtFiles
    /\ file0 = file
    /\ req = [r \in Requests |->
                IF r = RtCaller THEN [NoRequest EXCEPT !.kind = "roundtrip", !.pc = "read"]
                ELSE NoRequest]
    /\ crashed = FALSE
    /\ ioFaults = 0
    /\ acked = {}
    /\ overlap = FALSE

\* links = await loadLinks() on a record that exists; saveLinks(links) is next.
RtLoad ==
    /\ req[RtCaller].kind = "roundtrip"
    /\ req[RtCaller].pc = "read"
    /\ req[RtCaller].trips < MaxRoundTrips
    /\ file.exists /\ LoadOk(file)
    /\ req' = [req EXCEPT ![RtCaller].links = TableOf(file), ![RtCaller].loaded = "ok",
                          ![RtCaller].pc = "save_open"]
    /\ UNCHANGED <<file, crashed, ioFaults, acked, file0, overlap>>

\* saveLinks has returned: one more save(load()) is done.  History: the
\* text the first one left.
RtAgain ==
    /\ req[RtCaller].kind = "roundtrip"
    /\ req[RtCaller].pc = "save_close"
    /\ req' = [req EXCEPT ![RtCaller].pc = "read", ![RtCaller].trips = @ + 1,
                          ![RtCaller].once = IF req[RtCaller].trips = 0
                                             THEN file.data ELSE @]
    /\ UNCHANGED <<file, crashed, ioFaults, acked, file0, overlap>>

RtNext == RtLoad \/ SaveOpen(RtCaller) \/ SaveWrite(RtCaller) \/ RtAgain

RtSpec == RtInit /\ [][RtNext]_vars

\* ------------------------------------------------------------------ claims
Creates == {r \in Requests : req[r].kind = "create"}
Lists == {r \in Requests : req[r].kind = "list"}
Resolves == {r \in Requests : req[r].kind = "resolve"}
Succeeded(S) == {r \in S : req[r].status = 201}
AckedPairs(S) == {<<req[p].final, req[p].url>> : p \in S}
ConflictText == "Short code already exists. Please choose another."
EmptyAtStart == LoadOk(file0) /\ TableOf(file0) = <<>>

\* C1: of the creates that overlap in time and carry the same explicit
\* shortCode, absent from the table when they start, only one is answered
\* 201: a create answered 201 for such a code saw no overlapping create
\* answered 201 for that same requested code.
C1_OneWinnerPerCode ==
    \A r \in Succeeded(Creates) :
        (Truthy(req[r].shortCode) /\ req[r].absent0) => req[r].shortCode \notin req[r].rivals

\* C2: starting from an empty table, a list issued once N creates were
\* answered 201, and overlapping no other request, returns exactly N
\* entries: the code and destination of each of those creates (runs without
\* I/O errors, the N creates having been answered with N different codes).
C2_ListShowsEveryCreate ==
    \A r \in Lists :
        (/\ req[r].status = 200 /\ req[r].alone /\ EmptyAtStart /\ ioFaults = 0
         /\ Cardinality({req[p].final : p \in req[r].ackedBefore})
               = Cardinality(req[r].ackedBefore)) =>
            /\ Len(req[r].body) = Cardinality(req[r].ackedBefore)
            /\ Entries(req[r].body) = AckedPairs(req[r].ackedBefore)

\* C3: without overlap and without I/O errors, a create with a non-empty
\* destination and a requested code that is not a key of the table is
\* answered 201 with that code, and a resolve of a code that is a key of
\* the table is answered 301 with exactly the destination stored for it.
C3_CreateThenResolve ==
    /\ \A r \in Creates :
          (/\ req[r].pc = "done" /\ req[r].bodyOk /\ req[r].loaded = "ok"
           /\ Truthy(req[r].url) /\ Truthy(req[r].shortCode) /\ req[r].absent0
           /\ ioFaults = 0)
          => (req[r].status = 201 /\ req[r].text = req[r].shortCode)
    /\ \A r \in Resolves :
          (/\ req[r].pc = "done" /\ req[r].loaded = "ok"
           /\ \A p \in Requests : p > r => req[p].kind = "none"
           /\ HasOwn(TableOf(file), Slice1(req[r].path)))
          => (req[r].status = 301 /\ req[r].text = Get(TableOf(file), Slice1(req[r].path)))

\* C4: a load never observes a record that is neither the table before a
\* save nor the table after it: no request reads a zero-length record while
\* another request's save over a non-empty table is under way.
C4_NoTornRead == \A r \in Requests : ~req[r].torn

\* C5: a create that starts after a create for code c was answered 201 finds
\* c present in its collision check: no create passes the check with a
\* candidate that was acknowledged before it started (runs without I/O
\* errors).
C5_CheckSeesCompletedCreates ==
    \A r \in Creates :
        (req[r].checked = "absent" /\ ioFaults = 0) =>
            req[r].final \notin {req[p].final : p \in req[r].ackedBefore}

\* C6: at the moment a create is answered 201 the persisted record holds
\* the mapping from its code to its destination (runs without I/O errors).
C6_PersistedWhenAcked ==
    \A r \in Succeeded(Creates) : ioFaults = 0 => req[r].persisted

\* C7: a create with a destination whose candidate is a key of the table it
\* loaded is answered 400 with the conflict message, keeps that one
\* candidate, and has not changed the persisted record.
C7_ConflictLeavesTable ==
    \A r \in Creates :
        (req[r].bodyOk /\ Truthy(req[r].url) /\ req[r].candOwn) =>
            /\ req[r].pc = "done"
            /\ req[r].status = 400
            /\ req[r].text = ConflictText
            /\ req[r].final = req[r].cand
            /\ ~req[r].changed

\* C7 witness: a generated candidate collided and the create was refused.
C7_Witness ==
    \E r \in Creates :
        /\ req[r].shortCode = "" /\ req[r].candOwn /\ req[r].status = 400
        /\ req[r].text = ConflictText /\ HasOwn(TableOf(file), req[r].cand)

\* C8: a create with an empty or missing destination is never answered 201,
\* never gets as far as a candidate or a save and never changes the table;
\* once its load has returned it is answered 400 'URL is required.',
\* whatever shortCode came with it.
C8_EmptyUrlRejected ==
    \A r \in Creates :
        (req[r].bodyOk /\ ~Truthy(req[r].url)) =>
            /\ ~req[r].changed
            /\ req[r].checked = "none"
            /\ req[r].pc \notin {"save_open", "save_write", "save_close"}
            /\ req[r].status # 201
            /\ (req[r].loaded = "ok" =>
                    req[r].status = 400 /\ req[r].text = "URL is required.")

\* C9: a list whose load failed is answered 500.
C9_ListLoadErrorIs500 ==
    \A r \in Lists : req[r].loaded = "error" => req[r].status = 500

\* C10: a store error during create or resolve is answered as a failure
\* (500), and 404 is only the answer to a resolve whose load succeeded.
C10_StoreErrorsReported ==
    \A r \in Requests :
        /\ (req[r].kind \in {"create", "resolve"} /\ req[r].loaded = "error")
              => req[r].status = 500
        /\ req[r].status = 404 => req[r].loaded = "ok"

\* C11: without overlap, a resolve of a code that is not a key of the table
\* is answered 404 'not found', never a redirect or an error, and has not
\* changed the table.
C11_UnknownCodeIs404 ==
    \A r \in Resolves :
        (/\ req[r].pc = "done" /\ req[r].loaded = "ok"
         /\ \A p \in Requests : p > r => req[p].kind = "none"
         /\ ~HasOwn(TableOf(file), Slice1(req[r].path)))
        => (req[r].status = 404 /\ ~req[r].changed)

\* C12: every create that has begun gets its one response: no create is
\* left in flight, before or inside its save, in a state from which no step
\* of its handler can ever run because the process has gone.
C12_CreateCompletes ==
    \A r \in Creates : InFlight(r) => ~crashed

\* C13: without overlap and without I/O errors, the load of the first
\* request returns the empty table, and no error, both when the record is
\* zero-length and when there is no record: a list is answered 200 with no
\* entry, a resolve 404, a create goes on from the empty table; and when
\* there was no record, afterwards there is one that holds the empty table.
C13_EmptyAndMissingLoadEmpty ==
    LET q == req[1] IN
    (/\ file0 \in {NoFile, FileOf(<<>>)} /\ ioFaults = 0
     /\ q.kind \in {"create", "list", "resolve"}
     /\ q.pc \notin {"read", "mk_open", "mk_write"}) =>
        /\ q.loaded = "ok"
        /\ q.kind = "list" => (q.status = 200 /\ q.body = <<>>)
        /\ (q.kind = "resolve" /\ Slice1(q.path) \notin InheritedProps) => q.status = 404
        /\ (q.kind = "create" /\ q.pc = "save_open") => q.links = << <<q.final, q.url>> >>
        /\ (file0 = NoFile /\ q.kind \in {"list", "resolve"} /\ req[2].kind = "none")
              => file = FileOf(Stringify(<<>>))
        /\ (file0 = FileOf(<<>>) /\ q.kind \in {"list", "resolve"}) => ~q.changed

\* C13 witness: a list on a missing record was answered with the empty
\* table and the record now exists and holds "{}".
C13_Witness ==
    /\ file0 = NoFile /\ ioFaults = 0 /\ req[2].kind = "none"
    /\ req[1].kind = "list" /\ req[1].status = 200 /\ req[1].body = <<>>
    /\ file = FileOf(<<LB, RB>>)

\* C14: without overlap, a record that is non-empty and does not parse makes
\* every load fail and is never repaired: a request whose load found it has
\* written nothing, a create among them is answered 500 before any
\* candidate or save, and a record that was corrupt when the process started
\* is still the same record after any number of creates, lists and resolves,
\* none of the creates having been acknowledged.
C14_CorruptRecordKept ==
    /\ \A r \in Requests :
          (req[r].loaded = "error" /\ ioFaults = 0) =>
              /\ ~req[r].changed
              /\ req[r].kind = "create" =>
                    (req[r].pc = "done" /\ req[r].status = 500 /\ req[r].checked = "none")
    /\ ~LoadOk(file0) =>
          /\ file = file0
          /\ acked = {}
          /\ \A r \in Creates : req[r].pc = "done" => req[r].status = 500

\* C14 witness: a well-formed create with a destination met a corrupt
\* record, was answered 500, and the record is the corrupt one still.
C14_Witness ==
    \E r \in Creates :
        /\ ~LoadOk(file0) /\ file0.data # <<>> /\ file = file0 /\ ioFaults = 0
        /\ req[r].bodyOk /\ Truthy(req[r].url) /\ req[r].loaded = "error"
        /\ req[r].status = 500

\* C15: without overlap, a create whose save failed with an I/O error is
\* answered 500 and has left the table as it was before the create.
C15_FailedSaveLeavesTable ==
    \A r \in Creates :
        (req[r].pc = "done" /\ req[r].checked = "absent" /\ req[r].status # 201) =>
            (req[r].status = 500 /\ ~req[r].changed)

\* C16: for every record that holds a table (the empty table and a
\* zero-length record included), after save(load()) the table a load returns
\* is the one it returned before, and after a second save(load()) the record
\* is the very text the first one left.
C16_RoundTrip ==
    LET q == req[RtCaller] IN
    (q.kind = "roundtrip" /\ q.pc = "read" /\ q.trips >= 1) =>
        /\ LoadOk(file)
        /\ TableOf(file) = TableOf(file0)
        /\ q.links = TableOf(file0)
        /\ q.trips >= 2 => file.data = q.once

\* C16 witness: two round trips from a zero-length record, which now holds
\* "{}" as it did after the first.
C16_Witness ==
    /\ req[RtCaller].kind = "roundtrip" /\ req[RtCaller].trips = 2
    /\ file0 = FileOf(<<>>) /\ file = FileOf(<<LB, RB>>)
    /\ req[RtCaller].once = <<LB, RB>>

\* C17: a list or resolve request never changes the table, whatever it
\* overlaps with and whether or not the record exists when it loads.
C17_ReadsChangeNothing ==
    \A r \in Lists \cup Resolves : ioFaults = 0 => ~req[r].changed

\* C18: once a create for code c with destination d has been answered 201,
\* the record holding the mapping at that moment, the table maps c to d from
\* then on: with no request in flight and no I/O error having occurred, the
\* record loads and maps c to d.
C18_AckedMappingsStay ==
    (Pending = {} /\ ioFaults = 0 /\ ~crashed) =>
        \A r \in Succeeded(Creates) :
            req[r].persisted =>
                (LoadOk(file) /\ Get(TableOf(file), req[r].final) = req[r].url)

\* C19: without overlap, a GET of a reserved route is served as that route
\* and never as a resolve, whatever the table holds: GET /links is the list
\* (200 with the table, never a redirect or a 404) and GET / is the asset
\* (200, or 500 when reading it fails).
C19_ReservedRoutesFirst ==
    \A r \in Requests :
        /\ (req[r].kind # "none" /\ req[r].path = ListPath) =>
              /\ req[r].kind = "list"
              /\ req[r].status \in {0, 200}
              /\ req[r].text = ""
              /\ (req[r].status = 200 /\ \A p \in Requests : p > r => req[p].kind = "none")
                    => req[r].body = TableOf(file)
        /\ (req[r].kind # "none" /\ req[r].path \in StaticPaths) =>
              /\ req[r].kind = "static"
              /\ req[r].status \in {0, 200, 500}
              /\ req[r].status = 200 => req[r].text = "asset"

\* C19 witness: the table maps the code 'links', and GET /links was answered
\* with the list, the mapping for 'links' in it.
C19_Witness ==
    \E r \in Lists :
        /\ req[r].path = ListPath /\ req[r].status = 200
        /\ HasOwn(req[r].body, "links") /\ HasOwn(TableOf(file), "links")

====
